---- MODULE Spec2Model ----
(***************************************************************************)
(* Room multiplexer of the deepwebide-yjs collaboration relay.            *)
(*                                                                         *)
(* The server is a single Node.js process: every handler (connection,     *)
(* message, pong, close, error, heartbeat tick, cleanup tick, grace timer *)
(* callback) runs to completion, so each handler is one atomic action.    *)
(* The WebSocket transport (package ws) and the CRDT library (yjs) are    *)
(* external; their observable behaviour is modelled as the environment.   *)
(***************************************************************************)
EXTENDS Integers, Sequences, FiniteSets, TLC

(***************************************************************************)
(* Bounds of the model                                                     *)
(***************************************************************************)
\* number of socket objects that can exist at the same time
MaxConns == 3
\* number of grace-timer callbacks that can be scheduled at the same time
MaxTimers == 2
\* the messages an observed run receives
MaxMsgs == 2

(***************************************************************************)
(* Program constants.  The limits are scaled down so that the model       *)
(* reaches them: the code compares against them with >= and >, never with *)
(* their concrete value.                                                   *)
(***************************************************************************)
\* server.ts:12 (10 in the source)
MAX_CONNECTIONS_PER_IP_PER_ROOM == 2
\* config/index.ts:24, config.maxClientsPerRoom (50 by default)
maxClientsPerRoom == 2
\* server.ts:341, `status.totalClients > 100`
AnomalyThreshold == 2

Conns == 1..MaxConns
IPs == {"ipA", "ipB"}

(***************************************************************************)
(* Room identifiers are character sequences, so that the regular          *)
(* expressions of the source are computed, not assumed.                    *)
(***************************************************************************)
Digits == {"0", "1", "2", "3", "4", "5", "6", "7", "8", "9"}

UrlRoot == <<"/">>
UrlDefault == <<"/", "d", "e", "f", "a", "u", "l", "t">>
UrlOther == <<"/", "f", "o", "o">>
UrlRepoFile == <<"/", "r", "e", "p", "o", "-", "7", "-", "a">>
UrlRepoSlash == <<"/", "r", "e", "p", "o", "-", "7", "-", "/", "a">>
UrlFileTree == <<"/", "f", "i", "l", "e", "t", "r", "e", "e", "-", "4">>
UrlSavePoint == <<"/", "s", "a", "v", "e", "p", "o", "i", "n", "t", "-", "4">>

\* the request URLs the environment may present
Urls == {UrlRoot, UrlDefault, UrlOther, UrlRepoFile, UrlRepoSlash, UrlFileTree, UrlSavePoint}

\* A run serves one population of clients: the URLs they request and the addresses
\* they connect from.
Populations ==
    { [urls |-> {UrlRoot, UrlDefault, UrlOther, UrlRepoFile}, ips |-> {"ipA"}],
      [urls |-> {UrlRepoSlash, UrlSavePoint}, ips |-> {"ipA"}],
      [urls |-> {UrlFileTree}, ips |-> IPs] }

DefaultRoom == <<"d", "e", "f", "a", "u", "l", "t">>
NoRoom == <<>>

\* url.substring(1) || 'default'
RoomIdOfUrl(url) == IF Len(url) <= 1 THEN DefaultRoom ELSE SubSeq(url, 2, Len(url))

RoomIds == {RoomIdOfUrl(u) : u \in Urls}

HasPrefix(s, p) == Len(s) >= Len(p) /\ SubSeq(s, 1, Len(p)) = p

\* length of the maximal run of digits of s that starts right after position i
RECURSIVE DigitRun(_, _)
DigitRun(s, i) == IF i + 1 <= Len(s) /\ s[i + 1] \in Digits THEN 1 + DigitRun(s, i + 1) ELSE 0

RepoPrefix == <<"r", "e", "p", "o", "-">>
FileTreePrefix == <<"f", "i", "l", "e", "t", "r", "e", "e", "-">>
SavePointPrefix == <<"s", "a", "v", "e", "p", "o", "i", "n", "t", "-">>

\* prefix, then \d+, then end of input
PrefixDigitsOnly(s, p) == HasPrefix(s, p) /\ DigitRun(s, Len(p)) >= 1 /\ Len(p) + DigitRun(s, Len(p)) = Len(s)

\* server.ts: /^repo-\d+(-.*)?$/
isCodeEditorRoom(roomId) ==
    /\ HasPrefix(roomId, RepoPrefix)
    /\ DigitRun(roomId, 5) >= 1
    /\ \/ 5 + DigitRun(roomId, 5) = Len(roomId)
       \/ roomId[5 + DigitRun(roomId, 5) + 1] = "-"

\* server.ts: /^filetree-\d+$/
isFileTreeRoom(roomId) == PrefixDigitsOnly(roomId, FileTreePrefix)

\* server.ts: /^savepoint-\d+$/
isSavePointRoom(roomId) == PrefixDigitsOnly(roomId, SavePointPrefix)

\* (mutation of isAllowedRoom: save-point rooms are not allowed)
isAllowedRoom_NoSavePoint(roomId) == isCodeEditorRoom(roomId) \/ isFileTreeRoom(roomId)

isAllowedRoom(roomId) == isCodeEditorRoom(roomId) \/ isFileTreeRoom(roomId) \/ isSavePointRoom(roomId)

\* SaveManager.isCodeEditorRoom: /^repo-\d+-[^\/]+/ (not anchored at the end)
SaveManager_isCodeEditorRoom(roomId) ==
    /\ HasPrefix(roomId, RepoPrefix)
    /\ DigitRun(roomId, 5) >= 1
    /\ 5 + DigitRun(roomId, 5) + 2 <= Len(roomId)
    /\ roomId[5 + DigitRun(roomId, 5) + 1] = "-"
    /\ roomId[5 + DigitRun(roomId, 5) + 2] # "/"

\* SaveManager.isFileTreeRoom: /^filetree-\d+$/
SaveManager_isFileTreeRoom(roomId) == PrefixDigitsOnly(roomId, FileTreePrefix)

(***************************************************************************)
(* Payloads.  u1 and u2 are valid CRDT updates, aw is a frame the CRDT    *)
(* library rejects (awareness), ft is a JSON text with type "fileTree"    *)
(* (also rejected by the CRDT library), empty is the zero-length buffer.  *)
(***************************************************************************)
Updates == {"u1", "u2"}
Payloads == Updates \cup {"aw", "ft", "empty"}

(***************************************************************************)
(* State                                                                   *)
(***************************************************************************)
VARIABLES
    config,            \* the process environment, the loaded configuration and the start-up
                       \* phase (changes at start-up only)
    population,        \* the clients of this run (never changes)
    conn,              \* the socket objects: wss.clients and their ExtendedWebSocket fields
    rooms,             \* RoomManager.rooms: room id -> set of member sockets
    gracePeriods,      \* RoomManager.gracePeriods: room ids that have a timer entry
    timers,            \* scheduled grace callbacks, in the order they were armed
    connectionTracker, \* server.ts connectionTracker: ip -> (room id -> count)
    documents,         \* YjsDocumentManager.documents: room id -> applied updates
    documentStates,    \* YjsDocumentManager.documentStates: room id -> snapshot
    closeCalls,        \* output of the last handler: socket -> code of the close frame sent to it
    lastCall,          \* the last handler's arguments, if it was a connection or a disconnection
    graceJoiners,      \* history: the sockets whose join cancelled a grace timer and that
                       \* have been active in every state since
    running,           \* FALSE once the SIGINT/SIGTERM listeners have run
    broadcasts,        \* output of the last handler: the calls of RoomManager.broadcast it made
    received,          \* the number of messages the server has received (observed runs only)
    delivered,         \* socket -> the messages handed to its send, in order (observed runs only)
    armedBeforeDrop    \* room id -> the number of its scheduled grace callbacks that were armed
                       \* before its active count last dropped to zero (timed runs only)

vars == <<config, population, conn, rooms, gracePeriods, timers, connectionTracker, documents, documentStates, closeCalls, lastCall, graceJoiners, running,
         broadcasts, received, delivered, armedBeforeDrop>>

\* a socket slot that holds no socket (never connected, or closed and forgotten)
NoConn == [st |-> "none", ip |-> "", roomId |-> NoRoom, clientId |-> FALSE,
           isAlive |-> "undefined", errorEmitted |-> FALSE]

NoCall == [kind |-> "other"]

\* the server after startServer: no socket, no room, no timer
(***************************************************************************)
(* Configuration (config/index.ts).  A number is the result of parseInt:   *)
(* NaN or an integer; an environment variable is unset (or empty), or a    *)
(* text parseInt turns into NaN or into an integer.                         *)
(***************************************************************************)
Num(n) == [nan |-> FALSE, n |-> n]
NaN == [nan |-> TRUE, n |-> 0]
Unset == [set |-> FALSE, nan |-> FALSE, n |-> 0]
EnvInt(n) == [set |-> TRUE, nan |-> FALSE, n |-> n]
EnvText == [set |-> TRUE, nan |-> TRUE, n |-> 0]

\* JavaScript's <, > on numbers (false when an operand is NaN) and truthiness of a number
Lt(a, b) == ~a.nan /\ a.n < b
Gt(a, b) == ~a.nan /\ a.n > b
Truthy(a) == ~a.nan /\ a.n # 0

\* getEnvNumber: value ? parseInt(value, 10) : defaultValue
getEnvNumber(value, defaultValue) ==
    IF value.set THEN [nan |-> value.nan, n |-> value.n] ELSE Num(defaultValue)

loadConfig(env) ==
    [port |-> getEnvNumber(env.PORT, 1234),
     maxClientsPerRoom |-> getEnvNumber(env.MAX_CLIENTS_PER_ROOM, 50),
     websocketPingInterval |-> getEnvNumber(env.WEBSOCKET_PING_INTERVAL, 30000),
     gracePeriodMs |-> getEnvNumber(env.GRACE_PERIOD_MS, 120000)]

\* validateConfig returns (TRUE) or throws (FALSE); log level and API URL are valid
validateConfig(c) ==
    /\ ~(Lt(c.port, 1) \/ Gt(c.port, 65535))
    /\ ~Lt(c.maxClientsPerRoom, 1)
    /\ ~Lt(c.websocketPingInterval, 1000)
    /\ ~(Truthy(c.gracePeriodMs) /\ Lt(c.gracePeriodMs, 5000))

\* RoomManager constructor: parseInt(process.env.GRACE_PERIOD_MS || '120000', 10)
RoomManager_gracePeriodMs(env) ==
    IF env.GRACE_PERIOD_MS.set THEN [nan |-> env.GRACE_PERIOD_MS.nan, n |-> env.GRACE_PERIOD_MS.n]
    ELSE Num(120000)

\* the process before the modules are evaluated
Launched(env) == [env |-> env, phase |-> "launched", loaded |-> loadConfig(env), gracePeriodMs |-> NaN]

\* evaluation of config/index.ts (loadConfig, validateConfig) and then of server.ts
\* (new RoomManager()); a throw of validateConfig ends the process
startupOf(c) ==
    IF validateConfig(loadConfig(c.env))
    THEN [c EXCEPT !.phase = "running", !.gracePeriodMs = RoomManager_gracePeriodMs(c.env)]
    ELSE [c EXCEPT !.phase = "exited"]

\* the environment of the runs that serve clients: the room capacity of the model, defaults
\* for the rest
ServingEnv ==
    [PORT |-> Unset, MAX_CLIENTS_PER_ROOM |-> EnvInt(maxClientsPerRoom),
     WEBSOCKET_PING_INTERVAL |-> Unset, GRACE_PERIOD_MS |-> Unset]

\* the manager and the tracker as constructed: no socket, no room
Constructed ==
    /\ conn = [c \in Conns |-> NoConn]
    /\ rooms = <<>>
    /\ gracePeriods = {}
    /\ timers = <<>>
    /\ connectionTracker = <<>>
    /\ documents = <<>>
    /\ documentStates = <<>>
    /\ closeCalls = <<>>
    /\ lastCall = NoCall
    /\ graceJoiners = {}
    /\ running = TRUE
    /\ broadcasts = <<>>
    /\ received = 0
    /\ delivered = [c \in Conns |-> <<>>]
    /\ armedBeforeDrop = <<>>

Started == config = startupOf(Launched(ServingEnv)) /\ Constructed

Init == population \in Populations /\ Started

(***************************************************************************)
(* Maps with a varying key set                                             *)
(***************************************************************************)
MapSet(m, k, v) == [x \in DOMAIN m \cup {k} |-> IF x = k THEN v ELSE m[x]]
MapDelete(m, k) == [x \in DOMAIN m \ {k} |-> m[x]]
MapGetOr(m, k, d) == IF k \in DOMAIN m THEN m[k] ELSE d

(***************************************************************************)
(* ExtendedWebSocket (package ws): readyState OPEN is "open", CLOSING is  *)
(* "closing"; the 'close' event moves the socket to CLOSED, removes it    *)
(* from wss.clients and is the last event of the socket.                  *)
(***************************************************************************)
\* ws.close(code, reason): on an OPEN socket it sends the close frame and starts the
\* closing handshake; closeCalls are the close frames the running handler has sent
WsClose(S, c, code) ==
    IF S.conn[c].st = "open"
    THEN [S EXCEPT !.conn[c].st = "closing", !.closeCalls = MapSet(S.closeCalls, c, code)]
    ELSE S

RECURSIVE WsCloseAll(_, _, _)
WsCloseAll(S, todo, code) ==
    IF todo = {} THEN S
    ELSE LET c == CHOOSE x \in todo : TRUE
         IN  WsCloseAll(WsClose(S, c, code), todo \ {c}, code)

\* ws.terminate() destroys the socket; the 'close' event follows later
WsTerminate(w) == IF w.st = "open" THEN [w EXCEPT !.st = "closing"] ELSE w

\* roomManager.ts getActiveClientCount: the predicate on one member
IsActive(w) == w.st = "open" /\ w.isAlive # "false" /\ w.clientId /\ w.roomId # NoRoom

(***************************************************************************)
(* YjsDocumentManager.  A document is the set of valid updates applied to *)
(* it (CRDT updates are idempotent and commute); the stored snapshot is   *)
(* the encoding of the document at the time of the last successful apply. *)
(***************************************************************************)
\* Y.encodeStateAsUpdate(doc)
EncodeStateAsUpdate(doc) == doc

\* (mutation of handleYjsMessage: the snapshot is stored even when the update is rejected)
handleYjsMessage_StoresOnReject(S, roomId, message) ==
    IF message = "empty" THEN S
    ELSE LET doc == MapGetOr(S.documents, roomId, {}) \cup (IF message \in Updates THEN {message} ELSE {})
         IN  [S EXCEPT !.documents = MapSet(S.documents, roomId, doc),
                       !.documentStates = MapSet(S.documentStates, roomId, EncodeStateAsUpdate(doc))]

\* (mutation of handleYjsMessage: a new Y.Doc is created for every message)
handleYjsMessage_NewDocument(S, roomId, message) ==
    IF message = "empty" THEN S
    ELSE IF message \in Updates
         THEN [S EXCEPT !.documents = MapSet(S.documents, roomId, {message}),
                        !.documentStates = MapSet(S.documentStates, roomId,
                                                  EncodeStateAsUpdate({message}))]
         ELSE [S EXCEPT !.documents = MapSet(S.documents, roomId, {})]

handleYjsMessage(S, roomId, message) ==
    IF message = "empty" THEN S
    ELSE LET doc == MapGetOr(S.documents, roomId, {})
         IN  IF message \in Updates
             THEN [S EXCEPT !.documents = MapSet(S.documents, roomId, doc \cup {message}),
                            !.documentStates = MapSet(S.documentStates, roomId,
                                                      EncodeStateAsUpdate(doc \cup {message}))]
             ELSE [S EXCEPT !.documents = MapSet(S.documents, roomId, doc)]

\* (mutation of cleanupDocument: the stored snapshot is left behind)
cleanupDocument_KeepsSnapshot(S, roomId) ==
    [S EXCEPT !.documents = MapDelete(S.documents, roomId)]

cleanupDocument(S, roomId) ==
    [S EXCEPT !.documents = MapDelete(S.documents, roomId),
              !.documentStates = MapDelete(S.documentStates, roomId)]

(***************************************************************************)
(* RoomManager.  S is the record of the variables the manager reads and   *)
(* writes: conn, rooms, gracePeriods, timers, documents, documentStates.  *)
(***************************************************************************)
getActiveClientCount(S, roomId) ==
    IF roomId \notin DOMAIN S.rooms THEN 0
    ELSE Cardinality({c \in S.rooms[roomId] : IsActive(S.conn[c])})

\* (mutation of cleanupRoom: the document is left behind)
cleanupRoom_KeepsDocument(S, roomId) ==
    IF roomId \notin DOMAIN S.rooms THEN S
    ELSE [WsCloseAll(S, S.rooms[roomId], 1000) EXCEPT !.rooms = MapDelete(S.rooms, roomId)]

cleanupRoom(S, roomId) ==
    IF roomId \notin DOMAIN S.rooms THEN S
    ELSE LET closed == [WsCloseAll(S, S.rooms[roomId], 1000) EXCEPT !.rooms = MapDelete(S.rooms, roomId)]
         IN  IF SaveManager_isCodeEditorRoom(roomId) THEN cleanupDocument(closed, roomId) ELSE closed

\* (mutation of startGracePeriod: every kind of room gets a grace timer)
startGracePeriod_GraceForAll(S, roomId) ==
    [S EXCEPT !.timers = Append(S.timers, roomId),
              !.gracePeriods = S.gracePeriods \cup {roomId}]

startGracePeriod(S, roomId) ==
    IF SaveManager_isFileTreeRoom(roomId) THEN cleanupRoom(S, roomId)
    ELSE IF ~SaveManager_isCodeEditorRoom(roomId) THEN cleanupRoom(S, roomId)
    ELSE [S EXCEPT !.timers = Append(S.timers, roomId),
                   !.gracePeriods = S.gracePeriods \cup {roomId}]

\* position of the last occurrence of roomId in the timer queue (0 if none)
LastIndexOf(q, roomId) ==
    LET hits == {i \in 1..Len(q) : q[i] = roomId}
    IN  IF hits = {} THEN 0 ELSE CHOOSE i \in hits : \A j \in hits : j <= i

RemoveAt(q, i) == IF i = 0 THEN q ELSE SubSeq(q, 1, i - 1) \o SubSeq(q, i + 1, Len(q))

\* clearTimeout(gracePeriods.get(roomId)): the entry holds the timer armed last for the room
ClearTimeoutOf(S, roomId) == [S EXCEPT !.timers = RemoveAt(S.timers, LastIndexOf(S.timers, roomId))]

addClient(S, roomId, client) ==
    LET S1 == IF roomId \in S.gracePeriods
              THEN [ClearTimeoutOf(S, roomId) EXCEPT !.gracePeriods = S.gracePeriods \ {roomId},
                                                     !.graceJoiners = S.graceJoiners \cup {client}]
              ELSE S
        S2 == IF roomId \in DOMAIN S1.rooms THEN S1
              ELSE [S1 EXCEPT !.rooms = MapSet(S1.rooms, roomId, {})]
    IN  [S2 EXCEPT !.rooms = MapSet(S2.rooms, roomId, S2.rooms[roomId] \cup {client})]

\* (mutation of removeClient: the active count is checked for a non-member as well)
removeClient_ChecksAnyway(S, roomId, client) ==
    IF roomId \notin DOMAIN S.rooms THEN S
    ELSE LET S1 == [S EXCEPT !.rooms = MapSet(S.rooms, roomId, S.rooms[roomId] \ {client})]
         IN  IF getActiveClientCount(S1, roomId) = 0 THEN startGracePeriod(S1, roomId) ELSE S1

\* the number removeClient returns
removeClientCount(S, roomId, client) ==
    IF roomId \notin DOMAIN S.rooms THEN 0
    ELSE IF client \notin S.rooms[roomId] THEN getActiveClientCount(S, roomId)
    ELSE getActiveClientCount([S EXCEPT !.rooms = MapSet(S.rooms, roomId, S.rooms[roomId] \ {client})],
                              roomId)

removeClient(S, roomId, client) ==
    IF roomId \notin DOMAIN S.rooms THEN S
    ELSE IF client \notin S.rooms[roomId] THEN S
    ELSE LET S1 == [S EXCEPT !.rooms = MapSet(S.rooms, roomId, S.rooms[roomId] \ {client})]
         IN  IF getActiveClientCount(S1, roomId) = 0 THEN startGracePeriod(S1, roomId) ELSE S1

\* (mutation of broadcastEach: the sender is sent its own message)
RECURSIVE broadcastEach_EchoesSender(_, _, _, _, _)
broadcastEach_EchoesSender(S, todo, sender, failed, acc) ==
    IF todo = {} THEN acc
    ELSE LET client == CHOOSE c \in todo : TRUE
             acc1 == IF S.conn[client].st = "open" /\ client \notin failed
                     THEN [acc EXCEPT !.sent = @ \cup {client}, !.broadcastCount = @ + 1]
                     ELSE [acc EXCEPT !.deadClients = @ \cup {client}]
         IN  broadcastEach_EchoesSender(S, todo \ {client}, sender, failed, acc1)

\* (mutation of broadcastEach: a send that throws ends the iteration)
RECURSIVE broadcastEach_StopsAtFailure(_, _, _, _, _)
broadcastEach_StopsAtFailure(S, todo, sender, failed, acc) ==
    IF todo = {} THEN acc
    ELSE LET client == CHOOSE c \in todo : TRUE
         IN  IF client # sender /\ S.conn[client].st = "open" /\ client \in failed
             THEN [acc EXCEPT !.deadClients = @ \cup {client}]
             ELSE broadcastEach_StopsAtFailure(S, todo \ {client}, sender, failed,
                      IF client = sender THEN acc
                      ELSE IF S.conn[client].st = "open"
                           THEN [acc EXCEPT !.sent = @ \cup {client}, !.broadcastCount = @ + 1]
                           ELSE [acc EXCEPT !.deadClients = @ \cup {client}])

\* room.clients.forEach of broadcast over the clients in todo; failed are the peers whose
\* send throws; sent are the clients whose send was called and returned
RECURSIVE broadcastEach(_, _, _, _, _)
broadcastEach(S, todo, sender, failed, acc) ==
    IF todo = {} THEN acc
    ELSE LET client == CHOOSE c \in todo : TRUE
             acc1 == IF client = sender THEN acc
                     ELSE IF S.conn[client].st = "open"
                          THEN IF client \notin failed
                               THEN [acc EXCEPT !.sent = @ \cup {client}, !.broadcastCount = @ + 1]
                               ELSE [acc EXCEPT !.deadClients = @ \cup {client}]
                          ELSE [acc EXCEPT !.deadClients = @ \cup {client}]
         IN  broadcastEach(S, todo \ {client}, sender, failed, acc1)

broadcastLoop(S, roomId, sender, failed) ==
    broadcastEach(S, S.rooms[roomId], sender, failed, [sent |-> {}, broadcastCount |-> 0, deadClients |-> {}])

broadcast(S, roomId, message, sender, failed) ==
    IF roomId \notin DOMAIN S.rooms THEN S
    ELSE LET S1 == IF SaveManager_isCodeEditorRoom(roomId) THEN handleYjsMessage(S, roomId, message) ELSE S
             deadClients == broadcastLoop(S1, roomId, sender, failed).deadClients
         IN  [S1 EXCEPT !.rooms = MapSet(S1.rooms, roomId, S1.rooms[roomId] \ deadClients)]

\* the number broadcast returns
broadcastCount(S, roomId, sender, failed) ==
    IF roomId \notin DOMAIN S.rooms THEN 0
    ELSE broadcastLoop(S, roomId, sender, failed).broadcastCount

\* what an observer of one call of broadcast sees: its arguments, whether handleYjsMessage
\* was called (before any send), the clients the message was sent to, the clients put on
\* the deadClients list, the number returned
broadcastCall(S, roomId, message, sender, failed) ==
    [roomId |-> roomId, message |-> message, sender |-> sender,
     applied |-> roomId \in DOMAIN S.rooms /\ SaveManager_isCodeEditorRoom(roomId),
     sent |-> IF roomId \in DOMAIN S.rooms THEN broadcastLoop(S, roomId, sender, failed).sent ELSE {},
     dead |-> IF roomId \in DOMAIN S.rooms THEN broadcastLoop(S, roomId, sender, failed).deadClients ELSE {},
     returned |-> broadcastCount(S, roomId, sender, failed)]

\* the body of rooms.forEach in cleanupInactiveClients, for one room
cleanupInactiveClientsOf(S, roomId) ==
    LET deadClients == {c \in S.rooms[roomId] : ~IsActive(S.conn[c])}
        S1 == [S EXCEPT !.rooms = MapSet(S.rooms, roomId, S.rooms[roomId] \ deadClients)]
    IN  IF deadClients # {} /\ S1.rooms[roomId] = {} THEN startGracePeriod(S1, roomId) ELSE S1

\* rooms.forEach(body) over the rooms in todo
RECURSIVE ForEachRoom(_, _, _)
ForEachRoom(Body(_, _), S, todo) ==
    IF todo = {} THEN S
    ELSE LET roomId == CHOOSE r \in todo : TRUE
         IN  ForEachRoom(Body, IF roomId \in DOMAIN S.rooms THEN Body(S, roomId) ELSE S, todo \ {roomId})

cleanupInactiveClients(S) == ForEachRoom(cleanupInactiveClientsOf, S, DOMAIN S.rooms)

\* (mutation of cleanupEmptyRoomsOf: a pending grace timer does not protect the room)
cleanupEmptyRoomsOf_IgnoresGrace(S, roomId) ==
    IF getActiveClientCount(S, roomId) = 0 THEN cleanupRoom(S, roomId) ELSE S

cleanupEmptyRoomsOf(S, roomId) ==
    IF getActiveClientCount(S, roomId) = 0 /\ roomId \notin S.gracePeriods
    THEN cleanupRoom(S, roomId) ELSE S

cleanupEmptyRooms(S) == ForEachRoom(cleanupEmptyRoomsOf, S, DOMAIN S.rooms)

\* getServerStatus().totalClients
RECURSIVE SumActive(_, _)
SumActive(S, todo) ==
    IF todo = {} THEN 0
    ELSE LET roomId == CHOOSE r \in todo : TRUE
         IN  getActiveClientCount(S, roomId) + SumActive(S, todo \ {roomId})

totalClients(S) == SumActive(S, DOMAIN S.rooms)

\* (mutation of forceCleanupAllOf: the members are closed and the room is left registered)
forceCleanupAllOf_KeepsRoom(S, roomId) ==
    LET S1 == WsCloseAll(S, S.rooms[roomId], 1008)
    IN  [S1 EXCEPT !.conn = [c \in Conns |->
            IF c \in S.rooms[roomId] THEN WsTerminate(S1.conn[c]) ELSE S1.conn[c]]]

forceCleanupAllOf(S, roomId) ==
    LET S1 == WsCloseAll(S, S.rooms[roomId], 1008)
    IN  cleanupRoom([S1 EXCEPT !.conn = [c \in Conns |->
                        IF c \in S.rooms[roomId] THEN WsTerminate(S1.conn[c]) ELSE S1.conn[c]]],
                    roomId)

RECURSIVE ClearTimeouts(_, _)
ClearTimeouts(S, todo) ==
    IF todo = {} THEN S
    ELSE LET roomId == CHOOSE r \in todo : TRUE
         IN  ClearTimeouts(ClearTimeoutOf(S, roomId), todo \ {roomId})

forceCleanupAll(S) ==
    LET S1 == ForEachRoom(forceCleanupAllOf, S, DOMAIN S.rooms)
    IN  [ClearTimeouts(S1, S1.gracePeriods) EXCEPT !.gracePeriods = {}]

\* (mutation of graceCallback: the room is cleaned up without the recheck)
graceCallback_NoRecheck(S, roomId) ==
    LET S1 == cleanupRoom(S, roomId)
    IN  [S1 EXCEPT !.gracePeriods = S1.gracePeriods \ {roomId}]

\* (mutation of graceCallback: the map entry is not deleted)
graceCallback_KeepsEntry(S, roomId) ==
    IF roomId \notin DOMAIN S.rooms \/ getActiveClientCount(S, roomId) = 0
    THEN cleanupRoom(S, roomId) ELSE S

\* the callback startGracePeriod hands to setTimeout
graceCallback(S, roomId) ==
    LET S1 == IF roomId \notin DOMAIN S.rooms \/ getActiveClientCount(S, roomId) = 0
              THEN cleanupRoom(S, roomId) ELSE S
    IN  [S1 EXCEPT !.gracePeriods = S1.gracePeriods \ {roomId}]

(***************************************************************************)
(* server.ts: the connection quota                                         *)
(***************************************************************************)
trackCount(T, clientIP, roomId) == MapGetOr(MapGetOr(T, clientIP, <<>>), roomId, 0)

\* (mutation of trackConnectionOk: the limit is compared with > instead of >=)
trackConnectionOk_OffByOne(T, clientIP, roomId) == ~(trackCount(T, clientIP, roomId) > MAX_CONNECTIONS_PER_IP_PER_ROOM)

\* the boolean trackConnection returns
trackConnectionOk(T, clientIP, roomId) == ~(trackCount(T, clientIP, roomId) >= MAX_CONNECTIONS_PER_IP_PER_ROOM)

\* (mutation of trackConnection: the unit is taken before the limit is checked)
trackConnection_CountsRefused(T, clientIP, roomId) ==
    LET T1 == IF clientIP \in DOMAIN T THEN T ELSE MapSet(T, clientIP, <<>>)
    IN  MapSet(T1, clientIP, MapSet(T1[clientIP], roomId, trackCount(T, clientIP, roomId) + 1))

\* the table after trackConnection
trackConnection(T, clientIP, roomId) ==
    LET T1 == IF clientIP \in DOMAIN T THEN T ELSE MapSet(T, clientIP, <<>>)
    IN  IF ~trackConnectionOk(T, clientIP, roomId) THEN T1
        ELSE MapSet(T1, clientIP, MapSet(T1[clientIP], roomId, trackCount(T, clientIP, roomId) + 1))

\* (mutation of untrackConnection: the last unit is never released)
untrackConnection_KeepsLast(T, clientIP, roomId) ==
    IF clientIP \notin DOMAIN T \/ trackCount(T, clientIP, roomId) <= 1 THEN T
    ELSE MapSet(T, clientIP, MapSet(T[clientIP], roomId, trackCount(T, clientIP, roomId) - 1))

\* (mutation of untrackConnection: the inner map is kept when its last room is deleted)
untrackConnection_KeepsEmptyMap(T, clientIP, roomId) ==
    IF clientIP \notin DOMAIN T THEN T
    ELSE IF trackCount(T, clientIP, roomId) <= 1
         THEN MapSet(T, clientIP, MapDelete(T[clientIP], roomId))
         ELSE MapSet(T, clientIP, MapSet(T[clientIP], roomId, trackCount(T, clientIP, roomId) - 1))

untrackConnection(T, clientIP, roomId) ==
    IF clientIP \notin DOMAIN T THEN T
    ELSE IF trackCount(T, clientIP, roomId) <= 1
         THEN LET ipRooms == MapDelete(T[clientIP], roomId)
              IN  IF DOMAIN ipRooms = {} THEN MapDelete(T, clientIP) ELSE MapSet(T, clientIP, ipRooms)
         ELSE MapSet(T, clientIP, MapSet(T[clientIP], roomId, trackCount(T, clientIP, roomId) - 1))

(***************************************************************************)
(* Handlers of server.ts, one action each                                  *)
(***************************************************************************)
RM == [conn |-> conn, rooms |-> rooms, gracePeriods |-> gracePeriods, timers |-> timers,
       documents |-> documents, documentStates |-> documentStates, closeCalls |-> <<>>,
       graceJoiners |-> graceJoiners]

\* the manager's state after a handler; the model holds at most MaxTimers scheduled callbacks
Apply(S) ==
    /\ Len(S.timers) <= MaxTimers
    /\ conn' = S.conn
    /\ rooms' = S.rooms
    /\ gracePeriods' = S.gracePeriods
    /\ timers' = S.timers
    /\ documents' = S.documents
    /\ documentStates' = S.documentStates
    /\ closeCalls' = S.closeCalls
    /\ graceJoiners' = {c \in S.graceJoiners : IsActive(S.conn[c])}

\* the socket object wss hands to the 'connection' listener: OPEN, no field set yet
NewSocket == [NoConn EXCEPT !.st = "open"]

\* (mutation of Admitted: ws.roomId is not assigned)
Admitted_WithoutRoomId(w, clientIP, roomId) ==
    [w EXCEPT !.clientId = TRUE, !.isAlive = "true", !.ip = clientIP]


\* lines 149-157: the fields set on an admitted socket (ws.socket.remoteAddress is ip)
Admitted(w, clientIP, roomId) ==
    [w EXCEPT !.roomId = roomId, !.clientId = TRUE, !.isAlive = "true", !.ip = clientIP]

\* the socket slot the next accepted connection takes
FreeSlot == CHOOSE c \in Conns : conn[c].st = "none" /\ \A d \in Conns : conn[d].st = "none" => c <= d

Refuse(ws, code) == Apply(WsClose([RM EXCEPT !.conn[ws] = NewSocket], ws, code))

handleClientConnection(ws, clientIP, url) ==
    LET roomId == RoomIdOfUrl(url)
    IN  /\ conn[ws].st = "none"
        /\ lastCall' = [kind |-> "connection", ws |-> ws, clientIP |-> clientIP, url |-> url]
        /\ IF roomId # DefaultRoom /\ ~isAllowedRoom(roomId)
           THEN Refuse(ws, 1008) /\ UNCHANGED connectionTracker
           ELSE IF roomId = DefaultRoom
           THEN Refuse(ws, 1000) /\ UNCHANGED connectionTracker
           ELSE IF ~trackConnectionOk(connectionTracker, clientIP, roomId)
           THEN Refuse(ws, 1008) /\ connectionTracker' = trackConnection(connectionTracker, clientIP, roomId)
           ELSE IF getActiveClientCount(RM, roomId) >= maxClientsPerRoom
           THEN /\ Refuse(ws, 1008)
                /\ connectionTracker' = untrackConnection(trackConnection(connectionTracker, clientIP, roomId),
                                                          clientIP, roomId)
           ELSE /\ connectionTracker' = trackConnection(connectionTracker, clientIP, roomId)
                /\ Apply(addClient([RM EXCEPT !.conn[ws] = Admitted(NewSocket, clientIP, roomId)], roomId, ws))

\* the sockets broadcast calls send on for a message of ws
OpenPeers(ws) ==
    IF conn[ws].roomId \in DOMAIN rooms
    THEN {c \in rooms[conn[ws].roomId] \ {ws} : conn[c].st = "open"}
    ELSE {}

\* JSON.parse(message.toString('utf8')).type; "" when the parse throws or there is no type
ParsedMessageType(message) == IF message = "ft" THEN "fileTree" ELSE ""

\* 'message' listener; failed are the peers whose send throws
handleClientMessage(ws, message, failed) ==
    /\ conn[ws].st = "open"
    /\ conn[ws].roomId # NoRoom /\ conn[ws].clientId
    /\ IF ParsedMessageType(message) = "fileTree" /\ isFileTreeRoom(conn[ws].roomId)
       THEN Apply(broadcast(RM, conn[ws].roomId, message, ws, failed))
       ELSE Apply(broadcast(RM, conn[ws].roomId, message, ws, failed))
    /\ UNCHANGED connectionTracker

\* (mutation of handleClientMessageCalls: the file-tree branch falls through)
handleClientMessageCalls_FallsThrough(ws, message, failed) ==
    IF ParsedMessageType(message) = "fileTree" /\ isFileTreeRoom(conn[ws].roomId)
    THEN <<broadcastCall(RM, conn[ws].roomId, message, ws, failed),
           broadcastCall(broadcast(RM, conn[ws].roomId, message, ws, failed), conn[ws].roomId, message, ws, failed)>>
    ELSE <<broadcastCall(RM, conn[ws].roomId, message, ws, failed)>>

\* the calls of broadcast the 'message' listener makes
handleClientMessageCalls(ws, message, failed) ==
    IF ParsedMessageType(message) = "fileTree" /\ isFileTreeRoom(conn[ws].roomId)
    THEN <<broadcastCall(RM, conn[ws].roomId, message, ws, failed)>>
    ELSE <<broadcastCall(RM, conn[ws].roomId, message, ws, failed)>>

\* (mutation of Deliver: the newest message overtakes the queued ones)
Deliver_Overtakes(q, m) == <<m>> \o q

\* client.send(message): the socket writes its messages in the order of the calls
Deliver(q, m) == Append(q, m)

\* the messages handed to each socket after the calls of one handler
RECURSIVE DeliverCalls(_, _, _)
DeliverCalls(d, calls, m) ==
    IF calls = <<>> THEN d
    ELSE DeliverCalls([c \in Conns |-> IF c \in Head(calls).sent THEN Deliver(d[c], m) ELSE d[c]],
                      Tail(calls), m)

\* 'pong' listener
onPong(ws) ==
    /\ conn[ws].st = "open"
    /\ conn[ws].roomId # NoRoom
    /\ conn' = [conn EXCEPT ![ws].isAlive = "true"]
    /\ closeCalls' = <<>>
    /\ lastCall' = NoCall
    /\ UNCHANGED graceJoiners
    /\ UNCHANGED <<rooms, gracePeriods, timers, connectionTracker, documents, documentStates>>

\* handleClientDisconnection: the manager's state and the quota table after it
Disconnection(S, ws) ==
    IF S.conn[ws].roomId = NoRoom \/ ~S.conn[ws].clientId THEN S
    ELSE removeClient(S, S.conn[ws].roomId, ws)

DisconnectionTracker(T, w) ==
    IF w.roomId = NoRoom \/ ~w.clientId THEN T
    ELSE untrackConnection(T, w.ip, w.roomId)

\* the peer closes, or the connection drops: readyState leaves OPEN, 'close' comes later
peerCloses(ws) ==
    /\ conn[ws].st = "open"
    /\ conn' = [conn EXCEPT ![ws].st = "closing"]
    /\ closeCalls' = <<>>
    /\ lastCall' = NoCall
    /\ graceJoiners' = graceJoiners \ {ws}
    /\ UNCHANGED <<rooms, gracePeriods, timers, connectionTracker, documents, documentStates>>

\* 'close' listener (none is bound on a refused socket); the socket leaves wss.clients
onClose(ws) ==
    /\ conn[ws].st = "closing"
    /\ LET S == Disconnection(RM, ws)
       IN  Apply([S EXCEPT !.conn[ws] = NoConn])
    /\ connectionTracker' = DisconnectionTracker(connectionTracker, conn[ws])
    /\ lastCall' = IF conn[ws].roomId = NoRoom THEN NoCall
                   ELSE [kind |-> "disconnection", ws |-> ws, roomId |-> conn[ws].roomId]

\* 'error' listener: ws emits 'error' at most once per socket, then closes it
onError(ws) ==
    /\ conn[ws].st \in {"open", "closing"}
    /\ conn[ws].roomId # NoRoom
    /\ ~conn[ws].errorEmitted
    /\ Apply(Disconnection([RM EXCEPT !.conn[ws].st = "closing", !.conn[ws].errorEmitted = TRUE], ws))
    /\ connectionTracker' = DisconnectionTracker(connectionTracker, conn[ws])
    /\ lastCall' = [kind |-> "disconnection", ws |-> ws, roomId |-> conn[ws].roomId]

\* (mutation of heartbeatOf: an open socket is pinged whether or not it answered)
heartbeatOf_PingsAnyway(w) ==
    IF w.st = "none" THEN w
    ELSE IF w.st # "open" \/ w.roomId = NoRoom \/ ~w.clientId THEN WsTerminate(w)
    ELSE [w EXCEPT !.isAlive = "false"]

\* setupHeartbeat: one tick over wss.clients
heartbeatOf(w) ==
    IF w.st = "none" THEN w
    ELSE IF w.isAlive # "true" \/ w.st # "open" \/ w.roomId = NoRoom \/ ~w.clientId THEN WsTerminate(w)
    ELSE [w EXCEPT !.isAlive = "false"]

heartbeat ==
    /\ running
    /\ conn' = [c \in Conns |-> heartbeatOf(conn[c])]
    /\ closeCalls' = <<>>
    /\ lastCall' = NoCall
    /\ graceJoiners' = {}
    /\ UNCHANGED <<rooms, gracePeriods, timers, connectionTracker, documents, documentStates>>

\* setupCleanupInterval: one tick
cleanupPass(S) == cleanupEmptyRooms(cleanupInactiveClients(S))

cleanupInterval ==
    LET S == cleanupPass(RM)
    IN  IF totalClients(S) > AnomalyThreshold
        THEN Apply(forceCleanupAll(S)) /\ connectionTracker' = <<>> /\ lastCall' = NoCall
        ELSE Apply(S) /\ UNCHANGED connectionTracker /\ lastCall' = NoCall

\* the timer armed first fires first (all timers have the same delay)
graceTimerFires ==
    /\ timers # <<>>
    /\ Apply(graceCallback([RM EXCEPT !.timers = Tail(timers)], Head(timers)))
    /\ lastCall' = NoCall
    /\ UNCHANGED connectionTracker

\* RoomManager.shutdown
RoomManager_shutdown(S) ==
    LET S1 == [ClearTimeouts(S, S.gracePeriods) EXCEPT !.gracePeriods = {}]
        members == UNION {S1.rooms[r] : r \in DOMAIN S1.rooms}
        S2 == WsCloseAll(S1, members, 1001)
    IN  [S2 EXCEPT !.rooms = <<>>, !.documents = <<>>, !.documentStates = <<>>]

\* setupGracefulShutdown: the shutdown listener of SIGINT/SIGTERM; the heartbeat's listener
\* of the same signal clears the heartbeat interval, and wss.close() stops the listening
gracefulShutdown ==
    /\ running
    /\ running' = FALSE
    /\ Apply(RoomManager_shutdown(WsCloseAll(RM, {c \in Conns : conn[c].st # "none"}, 1001)))
    /\ connectionTracker' = <<>>
    /\ lastCall' = NoCall

\* wss 'connection': the new socket takes the free slot
connection ==
    /\ running
    /\ \E c \in Conns : conn[c].st = "none"
    /\ \E clientIP \in population.ips, url \in population.urls : handleClientConnection(FreeSlot, clientIP, url)
    /\ broadcasts' = <<>>
    /\ UNCHANGED <<config, population, armedBeforeDrop, running, received, delivered>>

message ==
    /\ \E ws \in Conns, payload \in Payloads : \E failed \in SUBSET OpenPeers(ws) :
         handleClientMessage(ws, payload, failed)
    /\ lastCall' = NoCall
    /\ broadcasts' = <<>>
    /\ UNCHANGED <<config, population, armedBeforeDrop, running, received, delivered>>

\* the 'message' listener with an observer that records the calls of broadcast
messageObserved ==
    /\ \E ws \in Conns, payload \in Payloads : \E failed \in SUBSET OpenPeers(ws) :
         /\ handleClientMessage(ws, payload, failed)
         /\ lastCall' = [kind |-> "message", ws |-> ws, message |-> payload]
         /\ broadcasts' = handleClientMessageCalls(ws, payload, failed)
    /\ UNCHANGED <<config, population, armedBeforeDrop, running, received, delivered>>

\* the 'message' listener with an observer that numbers the messages in the order the server
\* receives them and records what is handed to each socket
messageOrdered ==
    /\ received < MaxMsgs
    /\ \E ws \in Conns, payload \in Payloads : \E failed \in SUBSET OpenPeers(ws) :
         /\ handleClientMessage(ws, payload, failed)
         /\ received' = received + 1
         /\ delivered' = DeliverCalls(delivered, handleClientMessageCalls(ws, payload, failed),
                                      [from |-> ws, n |-> received + 1])
    /\ lastCall' = NoCall
    /\ broadcasts' = <<>>
    /\ UNCHANGED <<config, population, armedBeforeDrop, running>>

pong == (\E ws \in Conns : onPong(ws)) /\ broadcasts' = <<>> /\ UNCHANGED <<config, population, armedBeforeDrop, running, received, delivered>>

peerClose ==
    (\E ws \in Conns : peerCloses(ws)) /\ broadcasts' = <<>> /\ UNCHANGED <<config, population, armedBeforeDrop, running, received, delivered>>

\* the slot of the closed socket is free for a new socket, to which nothing was sent yet
close ==
    /\ \E ws \in Conns : onClose(ws) /\ delivered' = [delivered EXCEPT ![ws] = <<>>]
    /\ broadcasts' = <<>>
    /\ UNCHANGED <<config, population, armedBeforeDrop, running, received>>

error == (\E ws \in Conns : onError(ws)) /\ broadcasts' = <<>> /\ UNCHANGED <<config, population, armedBeforeDrop, running, received, delivered>>

heartbeatTick == heartbeat /\ broadcasts' = <<>> /\ UNCHANGED <<config, population, armedBeforeDrop, running, received, delivered>>

cleanupTick == cleanupInterval /\ broadcasts' = <<>> /\ UNCHANGED <<config, population, armedBeforeDrop, running, received, delivered>>

graceTimeout == graceTimerFires /\ broadcasts' = <<>> /\ UNCHANGED <<config, population, armedBeforeDrop, running, received, delivered>>

shutdown == gracefulShutdown /\ broadcasts' = <<>> /\ UNCHANGED <<config, population, armedBeforeDrop, received, delivered>>

Next ==
    \/ connection
    \/ message
    \/ pong
    \/ peerClose
    \/ close
    \/ error
    \/ heartbeatTick
    \/ cleanupTick
    \/ graceTimeout
    \/ shutdown

Spec == Init /\ [][Next]_vars

\* the runs in which the calls of broadcast are observed: one room, and sockets that
\* emit no 'error'; two addresses let three sockets into the file-tree room
BroadcastPopulations ==
    { [urls |-> {UrlRepoFile}, ips |-> {"ipA"}],
      [urls |-> {UrlRepoSlash}, ips |-> {"ipA"}],
      [urls |-> {UrlFileTree}, ips |-> IPs] }

InitBroadcast == population \in BroadcastPopulations /\ Started

NextBroadcast ==
    \/ connection
    \/ messageObserved
    \/ pong
    \/ peerClose
    \/ close
    \/ heartbeatTick
    \/ cleanupTick
    \/ graceTimeout

SpecBroadcast == InitBroadcast /\ [][NextBroadcast]_vars

\* the runs in which the order of the messages is observed: one room, and sockets that
\* emit no 'error'
FifoPopulations ==
    { [urls |-> {UrlFileTree}, ips |-> {"ipA"}],
      [urls |-> {UrlRepoFile}, ips |-> {"ipA"}] }

InitFifo == population \in FifoPopulations /\ Started

NextFifo ==
    \/ connection
    \/ messageOrdered
    \/ pong
    \/ peerClose
    \/ close
    \/ heartbeatTick
    \/ cleanupTick
    \/ graceTimeout

SpecFifo == InitFifo /\ [][NextFifo]_vars

\* the runs of one code-editor room in which the heartbeat interval keeps firing until it is
\* cleared (setInterval)
InitHeartbeat == population = [urls |-> {UrlRepoFile}, ips |-> {"ipA"}] /\ Started

SpecHeartbeat == InitHeartbeat /\ [][Next]_vars /\ WF_vars(heartbeatTick)

\* the environments a process is launched with
EnvPorts == {Unset, EnvText, EnvInt(0), EnvInt(1), EnvInt(65535), EnvInt(65536)}
EnvMaxClients == {Unset, EnvInt(0), EnvInt(1)}
EnvPingIntervals == {Unset, EnvInt(999), EnvInt(1000)}
EnvGracePeriods == {Unset, EnvInt(0), EnvInt(4999), EnvInt(5000)}

Envs ==
    [PORT : EnvPorts, MAX_CLIENTS_PER_ROOM : EnvMaxClients,
     WEBSOCKET_PING_INTERVAL : EnvPingIntervals, GRACE_PERIOD_MS : EnvGracePeriods]

\* start-up of the process: the configuration module, then the server module
startup ==
    /\ config.phase = "launched"
    /\ config' = startupOf(config)
    /\ UNCHANGED <<population, conn, rooms, gracePeriods, timers, connectionTracker, documents,
                   documentStates, closeCalls, lastCall, graceJoiners, running, broadcasts,
                   received, delivered, armedBeforeDrop>>

InitConfig ==
    /\ \E env \in Envs : config = Launched(env)
    /\ population = [urls |-> {}, ips |-> {}]
    /\ Constructed

NextConfig == startup

SpecConfig == InitConfig /\ [][NextConfig]_vars

\* the runs of one code-editor room in which the age of the grace callbacks is observed.
\* setTimeout(..., this.gracePeriodMs) gives every callback the same delay, so the callbacks
\* fire in the order they were armed, and a callback armed before a moment t fires earlier than
\* gracePeriodMs after t.
TimersOf(q, roomId) == Cardinality({i \in 1..Len(q) : q[i] = roomId})

Least(a, b) == IF a <= b THEN a ELSE b

\* the callbacks of roomId that are scheduled after the step and were armed before the last
\* drop of its active count to zero; fired is the room whose callback the step runs
armedBeforeDropOf(roomId, fired) ==
    LET f == IF fired = roomId THEN 1 ELSE 0
        k == MapGetOr(armedBeforeDrop, roomId, 0)
        before == getActiveClientCount(RM, roomId)
        after == getActiveClientCount([RM EXCEPT !.conn = conn', !.rooms = rooms'], roomId)
    IN  IF before > 0 /\ after = 0
        THEN Least(TimersOf(timers', roomId), TimersOf(timers, roomId) - f)
        ELSE Least(IF k > f THEN k - f ELSE 0, TimersOf(timers', roomId))

Timed(fired) ==
    armedBeforeDrop' = [roomId \in {r \in RoomIds : armedBeforeDropOf(r, fired) > 0} |->
                            armedBeforeDropOf(roomId, fired)]

connectionTimed ==
    /\ running
    /\ \E c \in Conns : conn[c].st = "none"
    /\ \E clientIP \in population.ips, url \in population.urls : handleClientConnection(FreeSlot, clientIP, url)
    /\ broadcasts' = <<>>
    /\ UNCHANGED <<config, population, running, received, delivered>>
    /\ Timed(NoRoom)

pongTimed ==
    /\ \E ws \in Conns : onPong(ws)
    /\ broadcasts' = <<>>
    /\ UNCHANGED <<config, population, running, received, delivered>>
    /\ Timed(NoRoom)

peerCloseTimed ==
    /\ \E ws \in Conns : peerCloses(ws)
    /\ broadcasts' = <<>>
    /\ UNCHANGED <<config, population, running, received, delivered>>
    /\ Timed(NoRoom)

closeTimed ==
    /\ \E ws \in Conns : onClose(ws)
    /\ broadcasts' = <<>>
    /\ UNCHANGED <<config, population, running, received, delivered>>
    /\ Timed(NoRoom)

heartbeatTickTimed ==
    /\ heartbeat
    /\ broadcasts' = <<>>
    /\ UNCHANGED <<config, population, running, received, delivered>>
    /\ Timed(NoRoom)

cleanupTickTimed ==
    /\ cleanupInterval
    /\ broadcasts' = <<>>
    /\ UNCHANGED <<config, population, running, received, delivered>>
    /\ Timed(NoRoom)

graceTimeoutTimed ==
    /\ graceTimerFires
    /\ broadcasts' = <<>>
    /\ UNCHANGED <<config, population, running, received, delivered>>
    /\ Timed(Head(timers))

InitGrace == population = [urls |-> {UrlRepoFile}, ips |-> {"ipA"}] /\ Started

NextGrace ==
    \/ connectionTimed
    \/ pongTimed
    \/ peerCloseTimed
    \/ closeTimed
    \/ heartbeatTickTimed
    \/ cleanupTickTimed
    \/ graceTimeoutTimed

SpecGrace == InitGrace /\ [][NextGrace]_vars

(***************************************************************************)
(* Vocabulary of the properties                                            *)
(***************************************************************************)
\* the sockets admitted to roomId from clientIP whose 'close' event has not been handled
AdmittedSockets(clientIP, roomId) ==
    {c \in Conns : conn[c].st # "none" /\ conn[c].roomId = roomId /\ conn[c].ip = clientIP}

\* the room ids sockets can be admitted to
AdmittedRoomIds == {r \in RoomIds : r # DefaultRoom /\ isAllowedRoom(r)}

ActiveMembers(roomId) ==
    IF roomId \in DOMAIN rooms THEN {c \in rooms[roomId] : IsActive(conn[c])} ELSE {}

(***************************************************************************)
(* C1: in every reachable state, every room has at most maxClientsPerRoom *)
(* active members.  (Violated: the capacity check counts active members   *)
(* only, and members that wait for their pong are not active.)            *)
(***************************************************************************)
C1_ActiveWithinCapacity ==
    \A r \in DOMAIN rooms : Cardinality(ActiveMembers(r)) <= maxClientsPerRoom

(***************************************************************************)
(* C2: for every (IP, room), the connections from that IP admitted to the *)
(* room and still open never exceed MAX_CONNECTIONS_PER_IP_PER_ROOM.      *)
(* (Violated: an 'error' event followed by the 'close' event releases two *)
(* quota units for one connection.)                                        *)
(***************************************************************************)
C2_OpenWithinQuota ==
    \A ip \in IPs, r \in AdmittedRoomIds :
        Cardinality({c \in AdmittedSockets(ip, r) : conn[c].st = "open"}) <= MAX_CONNECTIONS_PER_IP_PER_ROOM

(***************************************************************************)
(* C3: the count stored for (IP, room) equals the number of connections   *)
(* from that IP admitted to the room whose disconnect has not been        *)
(* processed yet.  (Violated: same double release as C2.)                 *)
(***************************************************************************)
C3_QuotaCountsPending ==
    \A ip \in IPs, r \in AdmittedRoomIds :
        trackCount(connectionTracker, ip, r) =
            Cardinality({c \in AdmittedSockets(ip, r) : ~conn[c].errorEmitted})

(***************************************************************************)
(* C4: every stored quota count is at most                                 *)
(* MAX_CONNECTIONS_PER_IP_PER_ROOM.                                        *)
(***************************************************************************)
C4_QuotaAtMostMax ==
    \A ip \in DOMAIN connectionTracker : \A r \in DOMAIN connectionTracker[ip] :
        connectionTracker[ip][r] <= MAX_CONNECTIONS_PER_IP_PER_ROOM

\* a connection was just refused with 1008 although its room has spare capacity:
\* the count of its (IP, room) is at the limit
C4_RefusedAtLimit ==
    /\ lastCall.kind = "connection"
    /\ lastCall.ws \in DOMAIN closeCalls
    /\ closeCalls[lastCall.ws] = 1008
    /\ trackCount(connectionTracker, lastCall.clientIP, RoomIdOfUrl(lastCall.url)) = MAX_CONNECTIONS_PER_IP_PER_ROOM
    /\ Cardinality(ActiveMembers(RoomIdOfUrl(lastCall.url))) < maxClientsPerRoom

(***************************************************************************)
(* C5 (as claimed): every (IP, room) with a positive count has an active  *)
(* member of that room from that IP.  (Violated: after a heartbeat tick   *)
(* the members wait for their pong and none is active.)                   *)
(***************************************************************************)
C5_PositiveCountHasActiveMember ==
    \A ip \in DOMAIN connectionTracker : \A r \in DOMAIN connectionTracker[ip] :
        connectionTracker[ip][r] > 0 =>
            \E c \in ActiveMembers(r) : conn[c].ip = ip

(***************************************************************************)
(* C5 (amended): every (IP, room) with a positive count has a connection  *)
(* from that IP that was admitted to that room and whose 'close' event    *)
(* has not been handled yet; it need not be active, open or a member.     *)
(***************************************************************************)
C5_PositiveCountHasAdmittedSocket ==
    \A ip \in DOMAIN connectionTracker : \A r \in DOMAIN connectionTracker[ip] :
        connectionTracker[ip][r] > 0 => AdmittedSockets(ip, r) # {}

\* a positive count whose only admitted socket is open and evicted from its room
C5_CountOfEvictedSocket ==
    \E ip \in DOMAIN connectionTracker : \E r \in DOMAIN connectionTracker[ip] :
        /\ connectionTracker[ip][r] > 0
        /\ ActiveMembers(r) = {}
        /\ \E c \in Conns : AdmittedSockets(ip, r) = {c} /\ conn[c].st = "open" /\ conn[c].isAlive = "true"

\* a step that is the 'connection' listener running for a new socket
ConnectionStep ==
    /\ lastCall'.kind = "connection"
    /\ conn[lastCall'.ws].st = "none"
    /\ conn'[lastCall'.ws].st # "none"

\* a step that is handleClientDisconnection running for a socket bound to a room
DisconnectionStep == lastCall'.kind = "disconnection"

(***************************************************************************)
(* C6: a connection attempt that is refused (probe, unsupported room id,  *)
(* quota, capacity) leaves the quota table, the room registry, the grace  *)
(* timers and the document registry as they were; a capacity refusal      *)
(* gives back the quota unit it took.                                      *)
(***************************************************************************)
C6_RefusalChangesNothing ==
    [][ConnectionStep /\ conn'[lastCall'.ws].roomId = NoRoom =>
           UNCHANGED <<connectionTracker, rooms, gracePeriods, timers, documents, documentStates>>]_vars

\* a connection was just refused for capacity: its room is allowed and full, and its
\* (IP, room) count is below the limit
C6_CapacityRefusal ==
    /\ lastCall.kind = "connection"
    /\ lastCall.ws \in DOMAIN closeCalls
    /\ closeCalls[lastCall.ws] = 1008
    /\ isAllowedRoom(RoomIdOfUrl(lastCall.url))
    /\ trackCount(connectionTracker, lastCall.clientIP, RoomIdOfUrl(lastCall.url)) < MAX_CONNECTIONS_PER_IP_PER_ROOM
    /\ Cardinality(ActiveMembers(RoomIdOfUrl(lastCall.url))) >= maxClientsPerRoom

\* the paths of the claim's table
C7_ProbeUrls == {UrlRoot, UrlDefault}
C7_SupportedUrls == {UrlRepoFile, UrlRepoSlash, UrlFileTree, UrlSavePoint}

\* the new socket was closed with this code and is a member of no room
C7_Refused(code) ==
    /\ lastCall'.ws \in DOMAIN closeCalls'
    /\ closeCalls'[lastCall'.ws] = code
    /\ \A r \in DOMAIN rooms' : lastCall'.ws \notin rooms'[r]

\* the new socket is a member of the room and was not closed
C7_Added(roomId) ==
    /\ roomId \in DOMAIN rooms'
    /\ lastCall'.ws \in rooms'[roomId]
    /\ lastCall'.ws \notin DOMAIN closeCalls'

(***************************************************************************)
(* C7: a connection attempt is resolved by the first check that fails, in *)
(* the order probe (paths / and /default: close 1000), classification     *)
(* (unsupported room id: close 1008), quota (count at the limit: close    *)
(* 1008), capacity (active count at the limit: close 1008); the socket is *)
(* added to its room exactly when none fails.                              *)
(***************************************************************************)
C7_FirstFailingCheck ==
    [][ConnectionStep =>
           LET url == lastCall'.url
               roomId == RoomIdOfUrl(url)
           IN  IF url \in C7_ProbeUrls THEN C7_Refused(1000)
               ELSE IF url \notin C7_SupportedUrls THEN C7_Refused(1008)
               ELSE IF trackCount(connectionTracker, lastCall'.clientIP, roomId) >= MAX_CONNECTIONS_PER_IP_PER_ROOM
                    THEN C7_Refused(1008)
               ELSE IF Cardinality(ActiveMembers(roomId)) >= maxClientsPerRoom THEN C7_Refused(1008)
               ELSE C7_Added(roomId)]_vars

\* a probe of the path /default was just closed with 1000 while sockets are admitted
C7_ProbeClosed ==
    /\ lastCall.kind = "connection"
    /\ lastCall.url = UrlDefault
    /\ lastCall.ws \in DOMAIN closeCalls
    /\ closeCalls[lastCall.ws] = 1000
    /\ conn[lastCall.ws].roomId = NoRoom
    /\ \E r \in DOMAIN rooms : rooms[r] # {}

\* the room of socket c and its document survive the step
C8_RoomSurvives(c) ==
    LET roomId == conn[c].roomId
    IN  /\ roomId \in DOMAIN rooms'
        /\ roomId \in DOMAIN documents =>
               roomId \in DOMAIN documents' /\ documents[roomId] \subseteq documents'[roomId]

(***************************************************************************)
(* C8 (as claimed): while a client that joined a code-editor room during  *)
(* its grace period stays active, no step destroys the room, and the      *)
(* document keeps the updates it had.  (Violated: the emergency drain of  *)
(* the cleanup tick destroys every room; and a failed send evicts the     *)
(* client, after which the room can empty and be destroyed.)              *)
(***************************************************************************)
C8_NoCleanupWhileJoinerActive ==
    [][\A c \in graceJoiners : C8_RoomSurvives(c)]_vars

(***************************************************************************)
(* C8 (amended): while a client that joined a code-editor room during its *)
(* grace period stays an active member of the room, no step other than    *)
(* the emergency drain (which closes the client with 1008) and the server *)
(* shutdown (which closes it with 1001) destroys the room, and the        *)
(* document keeps the updates it had.                                      *)
(***************************************************************************)
C8_NoCleanupWhileJoinerMember ==
    [][\A c \in graceJoiners :
           /\ conn[c].roomId \in DOMAIN rooms
           /\ c \in rooms[conn[c].roomId]
           /\ ~(c \in DOMAIN closeCalls' /\ closeCalls'[c] \in {1008, 1001})
           => C8_RoomSurvives(c)]_vars

\* a client that joined during the grace period is the only member, the document holds
\* an update, no timer is registered for the room, and a later step has happened
C8_RejoinedWithDocument ==
    \E c \in graceJoiners :
        /\ conn[c].roomId \in DOMAIN rooms
        /\ rooms[conn[c].roomId] = {c}
        /\ conn[c].roomId \in DOMAIN documents
        /\ documents[conn[c].roomId] # {}
        /\ conn[c].roomId \notin gracePeriods
        /\ lastCall.kind # "connection"

\* repo-<int>-<rest> with a non-empty rest
C9_CodeEditorShape(roomId) ==
    /\ HasPrefix(roomId, RepoPrefix)
    /\ DigitRun(roomId, 5) >= 1
    /\ 5 + DigitRun(roomId, 5) + 2 <= Len(roomId)
    /\ roomId[5 + DigitRun(roomId, 5) + 1] = "-"

\* the disconnecting socket is a member of its room and no other member is active
LastActiveLeaves ==
    /\ DisconnectionStep
    /\ lastCall'.roomId \in DOMAIN rooms
    /\ lastCall'.ws \in rooms[lastCall'.roomId]
    /\ ActiveMembers(lastCall'.roomId) \ {lastCall'.ws} = {}

(***************************************************************************)
(* C9: when the disconnection of a member leaves a code-editor room (any  *)
(* id repo-<int>-<rest>, rest non-empty) without active members, the room *)
(* and its document are not destroyed in that step and a grace timer is   *)
(* armed for the room.  (Violated: the room manager classifies with       *)
(* SaveManager.isCodeEditorRoom, which rejects a rest that starts with a  *)
(* slash, and destroys such a room at once.)                               *)
(***************************************************************************)
C9_LastDepartureArmsGrace ==
    [][LastActiveLeaves /\ C9_CodeEditorShape(lastCall'.roomId) =>
           /\ lastCall'.roomId \in DOMAIN rooms'
           /\ lastCall'.roomId \in gracePeriods'
           /\ lastCall'.roomId \in DOMAIN documents => lastCall'.roomId \in DOMAIN documents']_vars

\* no file-tree or save-point id is in the grace timers or in the document registry
C10_NoGraceNoDocument ==
    \A r \in RoomIds :
        isFileTreeRoom(r) \/ isSavePointRoom(r) =>
            /\ r \notin gracePeriods
            /\ \A i \in 1..Len(timers) : timers[i] # r
            /\ r \notin DOMAIN documents
            /\ r \notin DOMAIN documentStates

\* the departure that leaves a file-tree or save-point room without active members destroys it
C10_DepartureDestroys ==
    LastActiveLeaves /\ (isFileTreeRoom(lastCall'.roomId) \/ isSavePointRoom(lastCall'.roomId)) =>
        lastCall'.roomId \notin DOMAIN rooms'

(***************************************************************************)
(* C10: a file-tree or save-point room is destroyed in the very step in   *)
(* which a departure drops its active count to zero, and no file-tree or  *)
(* save-point id is ever in the grace timers or in the document registry. *)
(***************************************************************************)
C10_NoGraceForTreeAndSavePoint ==
    []C10_NoGraceNoDocument /\ [][C10_DepartureDestroys]_vars

\* a save-point room was just destroyed by a departure, and its remaining member, which
\* waited for its pong, was closed with 1000
C10_SavePointDestroyed ==
    /\ lastCall.kind = "disconnection"
    /\ isSavePointRoom(lastCall.roomId)
    /\ lastCall.roomId \notin DOMAIN rooms
    /\ \E d \in DOMAIN closeCalls : closeCalls[d] = 1000 /\ conn[d].roomId = lastCall.roomId

ActiveTotal == Cardinality(UNION {ActiveMembers(r) : r \in DOMAIN rooms})

(***************************************************************************)
(* C12: after a cleanup tick every room left in the registry has an       *)
(* active member or a pending grace timer, and unless the tick drains,    *)
(* every room that had a pending grace timer is still in the registry.    *)
(***************************************************************************)
C12_SweepLeavesNoIdleRoom ==
    [][cleanupTick =>
           /\ \A r \in DOMAIN rooms' :
                  r \in gracePeriods' \/ \E c \in rooms'[r] : IsActive(conn'[c])
           /\ ActiveTotal <= AnomalyThreshold =>
                  \A r \in DOMAIN rooms : r \in gracePeriods => r \in DOMAIN rooms']_vars

\* a room without members waits for its grace timer; a socket that the reaping evicted
\* from it while it waited for its pong is still open
C12_GraceRoomKept ==
    \E r \in DOMAIN rooms :
        /\ rooms[r] = {}
        /\ r \in gracePeriods
        /\ \E d \in Conns : conn[d].roomId = r /\ conn[d].st = "open" /\ conn[d].isAlive = "false"

(***************************************************************************)
(* C13: a call of broadcast that returns N has sent the payload to        *)
(* exactly N sockets; each of them is a member of the room, is open and   *)
(* is not the sender, and its send did not throw.                          *)
(***************************************************************************)
C13_ReturnCountsSends ==
    \A i \in 1..Len(broadcasts) :
        LET call == broadcasts[i]
        IN  /\ Cardinality(call.sent) = call.returned
            /\ call.sender \notin call.sent
            /\ \A c \in call.sent :
                   /\ call.roomId \in DOMAIN rooms
                   /\ c \in rooms[call.roomId]
                   /\ conn[c].st = "open"

\* a call of broadcast returned 2 while the sender is a member of the room
C13_TwoPeersReached ==
    /\ Len(broadcasts) = 1
    /\ broadcasts[1].returned = 2
    /\ broadcasts[1].sender \in rooms[broadcasts[1].roomId]

C15_OfferedBeforeSent ==
    \A i \in 1..Len(broadcasts) :
        C9_CodeEditorShape(broadcasts[i].roomId) /\ broadcasts[i].sent # {} => broadcasts[i].applied

(***************************************************************************)
(* C16: the 'message' listener of an admitted socket calls broadcast      *)
(* exactly once, with the socket's room, the bytes it received and the    *)
(* socket as sender, whatever the room kind and the payload.               *)
(***************************************************************************)
C16_OneBroadcastPerMessage ==
    lastCall.kind = "message" =>
        /\ Len(broadcasts) = 1
        /\ broadcasts[1].message = lastCall.message
        /\ broadcasts[1].sender = lastCall.ws
        /\ broadcasts[1].roomId = conn[lastCall.ws].roomId

\* a fileTree JSON text was just relayed to a peer in a file-tree room
C16_FileTreeJsonRelayed ==
    /\ lastCall.kind = "message"
    /\ lastCall.message = "ft"
    /\ isFileTreeRoom(conn[lastCall.ws].roomId)
    /\ Len(broadcasts) = 1
    /\ broadcasts[1].sent # {}

\* the payloads Y.applyUpdate throws on
C17_Rejected == {"aw", "ft"}

C18_Unanswered(c) == conn[c].st = "open" /\ conn[c].isAlive = "false"

\* the tick terminates every socket that has not answered the ping of the tick before
C18_TickTerminatesUnanswered ==
    heartbeatTick => \A c \in Conns : C18_Unanswered(c) => conn'[c].st = "closing"

\* the 'close' listener leaves the socket in no room and gives back a unit of its (IP, room)
C18_CloseReleases ==
    DisconnectionStep /\ conn'[lastCall'.ws].st = "none" =>
        /\ \A r \in DOMAIN rooms' : lastCall'.ws \notin rooms'[r]
        /\ trackCount(connectionTracker', conn[lastCall'.ws].ip, lastCall'.roomId) =
               IF trackCount(connectionTracker, conn[lastCall'.ws].ip, lastCall'.roomId) > 0
               THEN trackCount(connectionTracker, conn[lastCall'.ws].ip, lastCall'.roomId) - 1
               ELSE 0

(***************************************************************************)
(* C18: while the heartbeat interval fires, a socket that does not answer *)
(* a ping is terminated by the next tick, that is by the second tick      *)
(* after its last pong; and when its 'close' is handled it is a member of *)
(* no room and a unit of its (IP, room) count is given back.              *)
(***************************************************************************)
C18_SilentSocketTerminated ==
    /\ [][C18_TickTerminatesUnanswered]_vars
    /\ [][C18_CloseReleases]_vars
    /\ \A c \in Conns : C18_Unanswered(c) ~> ~C18_Unanswered(c)

\* a socket that did not answer its ping is closing and still a member of its room, while
\* the server runs
C18_TerminatedMember ==
    \E c \in Conns :
        /\ running
        /\ conn[c].st = "closing"
        /\ conn[c].isAlive = "false"
        /\ conn[c].roomId \in DOMAIN rooms
        /\ c \in rooms[conn[c].roomId]
        /\ closeCalls = <<>>

\* the members the reaping leaves in the rooms: the active ones
C19_MembersAfterReap == UNION {ActiveMembers(r) : r \in DOMAIN rooms}

\* what the drain leaves behind
C19_Drained ==
    /\ \A c \in C19_MembersAfterReap :
           /\ c \in DOMAIN closeCalls'
           /\ closeCalls'[c] = 1008
           /\ conn'[c].st = "closing"
    /\ DOMAIN rooms' = {}
    /\ DOMAIN documents' = {}
    /\ DOMAIN documentStates' = {}
    /\ gracePeriods' = {}
    /\ DOMAIN connectionTracker' = {}

\* what a tick without drain leaves alone
C19_NotDrained ==
    /\ \A c \in DOMAIN closeCalls' : closeCalls'[c] # 1008
    /\ \A c \in C19_MembersAfterReap : conn'[c] = conn[c]
    /\ \A r \in DOMAIN rooms :
           ActiveMembers(r) # {} =>
               /\ r \in DOMAIN rooms'
               /\ rooms'[r] = ActiveMembers(r)
               /\ r \in DOMAIN documents => r \in DOMAIN documents' /\ documents'[r] = documents[r]
               /\ r \in DOMAIN documentStates =>
                      r \in DOMAIN documentStates' /\ documentStates'[r] = documentStates[r]
    /\ gracePeriods \subseteq gracePeriods'
    /\ connectionTracker' = connectionTracker

C20_ShutdownLeavesNothing ==
    shutdown =>
        /\ \A c \in Conns :
               conn[c].st = "open" =>
                   c \in DOMAIN closeCalls' /\ closeCalls'[c] = 1001 /\ conn'[c].st = "closing"
        /\ DOMAIN rooms' = {}
        /\ DOMAIN documents' = {}
        /\ DOMAIN documentStates' = {}
        /\ gracePeriods' = {}
        /\ DOMAIN connectionTracker' = {}

\* no callback of startGracePeriod's setTimeout runs once the shutdown listener has run
C20_NoCallbackAfterShutdown == ~running => ~graceTimeout

(***************************************************************************)
(* C20: the shutdown closes every connection with 1001 and leaves no room, *)
(* no document, no registered grace timer and no quota entry, and no       *)
(* grace-timer callback armed before the shutdown runs after it.           *)
(* (Violated: a timer that startGracePeriod replaced in the map without    *)
(* cancelling it is not cleared by the shutdown, and its callback runs.)   *)
(***************************************************************************)
C20_ShutdownIsFinal ==
    [][C20_ShutdownLeavesNothing /\ C20_NoCallbackAfterShutdown]_vars

\* the members of a room in manager state S (none when the room is not registered)
MembersIn(S, roomId) == IF roomId \in DOMAIN S.rooms THEN S.rooms[roomId] ELSE {}

\* the manager state in which socket c can be handed to addClient for roomId: a free slot
\* is the socket handleClientConnection has just admitted
C21_Before(roomId, c) ==
    IF conn[c].st = "none"
    THEN [RM EXCEPT !.conn[c] = Admitted(NewSocket, CHOOSE ip \in population.ips : TRUE, roomId)]
    ELSE RM

\* addClient(roomId, c); removeClient(roomId, c)
C21_AddThenRemove(roomId, c) == removeClient(addClient(C21_Before(roomId, c), roomId, c), roomId, c)

(***************************************************************************)
(* C21: in every reachable state, for every room id R and socket c that   *)
(* is not a member of R, addClient(R, c) followed by removeClient(R, c)   *)
(* leaves every room with the members it had, and closes or changes no    *)
(* other socket.  (Violated: when the members of R all wait for their     *)
(* pong and R is not a code-editor room for SaveManager, the departure of *)
(* c destroys R and closes its members with 1000.)                        *)
(***************************************************************************)
C21_AddRemoveKeepsMembership ==
    \A url \in population.urls, c \in Conns :
        LET roomId == RoomIdOfUrl(url)
        IN  c \notin MembersIn(RM, roomId) =>
                /\ \A r \in RoomIds : MembersIn(C21_AddThenRemove(roomId, c), r) = MembersIn(RM, r)
                /\ \A d \in Conns \ {c} : C21_AddThenRemove(roomId, c).conn[d] = conn[d]

\* the room ids the clients of this run ask for
C22_RoomIds == {RoomIdOfUrl(url) : url \in population.urls}

(***************************************************************************)
(* C22: in every reachable state of the quota table, for every (IP, room) *)
(* for which trackConnection returns true, trackConnection followed by    *)
(* untrackConnection gives back the very same table; and the table holds  *)
(* no zero count and no empty inner map.                                   *)
(***************************************************************************)
C22_AdmitReleaseRestores ==
    /\ \A clientIP \in population.ips, roomId \in C22_RoomIds :
           trackConnectionOk(connectionTracker, clientIP, roomId) =>
               untrackConnection(trackConnection(connectionTracker, clientIP, roomId),
                                 clientIP, roomId) = connectionTracker
    /\ \A clientIP \in DOMAIN connectionTracker :
           /\ DOMAIN connectionTracker[clientIP] # {}
           /\ \A roomId \in DOMAIN connectionTracker[clientIP] :
                  connectionTracker[clientIP][roomId] > 0

\* a release has just run on a table that still counts one socket of the address in the
\* room, so that a further admission succeeds and the pair goes through the decrement
C22_ReleasedOneOfTwo ==
    /\ lastCall.kind = "disconnection"
    /\ \E clientIP \in DOMAIN connectionTracker :
           /\ lastCall.roomId \in DOMAIN connectionTracker[clientIP]
           /\ connectionTracker[clientIP][lastCall.roomId] = 1
           /\ trackConnectionOk(connectionTracker, clientIP, lastCall.roomId)

\* the step is the 'message' listener of a socket bound to roomId
C23_MessageTo(roomId) ==
    /\ lastCall'.kind = "message"
    /\ conn[lastCall'.ws].roomId = roomId

(***************************************************************************)
(* C23: a document that exists before and after a step keeps every update *)
(* it held, and a valid update sent to its room is added to it (the same  *)
(* replica is used from creation to destroy); and a document comes into   *)
(* being only in the handling of a non-empty message sent to a registered *)
(* code-editor room.                                                       *)
(***************************************************************************)
C23_OneReplicaPerRoom ==
    [][\A roomId \in RoomIds :
           /\ roomId \in DOMAIN documents /\ roomId \in DOMAIN documents' =>
                  /\ documents[roomId] \subseteq documents'[roomId]
                  /\ C23_MessageTo(roomId) /\ lastCall'.message \in Updates =>
                         documents'[roomId] = documents[roomId] \cup {lastCall'.message}
           /\ roomId \notin DOMAIN documents /\ roomId \in DOMAIN documents' =>
                  /\ C23_MessageTo(roomId)
                  /\ lastCall'.message # "empty"
                  /\ roomId \in DOMAIN rooms
                  /\ isCodeEditorRoom(roomId)]_vars

\* the second update has just been applied to the document that held the first
C23_TwoUpdatesInOneDocument ==
    /\ lastCall.kind = "message"
    /\ conn[lastCall.ws].roomId \in DOMAIN documents
    /\ documents[conn[lastCall.ws].roomId] = Updates
    /\ documentStates[conn[lastCall.ws].roomId] = EncodeStateAsUpdate(Updates)

\* the scheduled callbacks of startGracePeriod for roomId
ScheduledFor(roomId) == {i \in 1..Len(timers) : timers[i] = roomId}

(***************************************************************************)
(* C24: in every reachable state each room id has at most one scheduled   *)
(* grace-timer callback.  (Violated: startGracePeriod arms a new timer    *)
(* and overwrites the map entry without cancelling the timer that is      *)
(* already pending for the room.)                                          *)
(***************************************************************************)
C24_OneTimerPerRoom == \A roomId \in RoomIds : Cardinality(ScheduledFor(roomId)) <= 1

(***************************************************************************)
(* C25: after the step in which handleClientConnection adds a socket to   *)
(* room R (addClient), no grace-timer callback for R is scheduled and     *)
(* gracePeriods has no entry for R.  (Violated: addClient cancels the     *)
(* timer stored in the map only; a timer that startGracePeriod replaced   *)
(* in the map stays scheduled.)                                            *)
(***************************************************************************)
C25_JoinCancelsTimers ==
    [][ConnectionStep /\ C7_Added(RoomIdOfUrl(lastCall'.url)) =>
           /\ \A i \in 1..Len(timers') : timers'[i] # RoomIdOfUrl(lastCall'.url)
           /\ RoomIdOfUrl(lastCall'.url) \notin gracePeriods']_vars

(***************************************************************************)
(* C26: when the grace-timer callback of room R runs, R is not registered *)
(* afterwards exactly when R has no active member at that moment, and     *)
(* then its document is gone too; when R has an active member, the rooms, *)
(* the sockets and the documents are left as they were; in both cases     *)
(* gracePeriods has no entry for R afterwards.                             *)
(***************************************************************************)
C26_FiringRechecksActiveCount ==
    [][graceTimeout =>
           /\ Head(timers) \notin DOMAIN rooms' <=> ActiveMembers(Head(timers)) = {}
           /\ ActiveMembers(Head(timers)) = {} =>
                  Head(timers) \notin DOMAIN documents' /\ Head(timers) \notin DOMAIN documentStates'
           /\ ActiveMembers(Head(timers)) # {} =>
                  UNCHANGED <<rooms, conn, documents, documentStates>>
           /\ Head(timers) \notin gracePeriods']_vars

\* a grace-timer callback has destroyed a code-editor room that had no active member and
\* closed its remaining member, which was waiting for its pong, with 1000
C26_FiredOnDormantRoom ==
    \E c \in DOMAIN closeCalls :
        /\ closeCalls[c] = 1000
        /\ SaveManager_isCodeEditorRoom(conn[c].roomId)
        /\ conn[c].isAlive = "false"
        /\ conn[c].roomId \notin DOMAIN rooms
        /\ conn[c].roomId \notin gracePeriods

\* the members of the sender's room, other than the sender, whose transport is not open
C27_NonOpenPeers(ws) ==
    {c \in MembersIn(RM, conn[ws].roomId) \ {ws} : conn[c].st # "open"}

(***************************************************************************)
(* C27: after the handling of a message of socket ws in a registered room *)
(* R, for some set of open peers whose send threw: the payload was sent   *)
(* to every other open peer, and the members of R are the members it had  *)
(* less the peers whose send threw and the peers whose transport was not  *)
(* open (so no such peer is left in R, and nobody else is removed).        *)
(***************************************************************************)
C27_DeadPeersEvicted ==
    [][lastCall'.kind = "message" /\ conn[lastCall'.ws].roomId \in DOMAIN rooms =>
           \E failed \in SUBSET OpenPeers(lastCall'.ws) :
               /\ broadcasts'[1].sent = OpenPeers(lastCall'.ws) \ failed
               /\ broadcasts'[1].dead = failed \cup C27_NonOpenPeers(lastCall'.ws)
               /\ conn[lastCall'.ws].roomId \in DOMAIN rooms'
               /\ rooms'[conn[lastCall'.ws].roomId] =
                      rooms[conn[lastCall'.ws].roomId] \ (failed \cup C27_NonOpenPeers(lastCall'.ws))
               /\ \A c \in rooms'[conn[lastCall'.ws].roomId] \ {lastCall'.ws} :
                      conn'[c].st = "open" /\ c \in broadcasts'[1].sent]_vars

\* a message was sent to one peer while the send to another peer threw in the same call:
\* the first is still a member with the sender, the second is open and no longer a member
C27_OneFailedOneReached ==
    /\ lastCall.kind = "message"
    /\ broadcasts # <<>>
    /\ broadcasts[1].returned = 1
    /\ MembersIn(RM, broadcasts[1].roomId) = {lastCall.ws} \cup broadcasts[1].sent
    /\ \E c \in broadcasts[1].dead :
           conn[c].st = "open" /\ c \notin MembersIn(RM, broadcasts[1].roomId)

(***************************************************************************)
(* C28: after the 'message' listener has handled a message of an admitted *)
(* socket, the socket's isAlive is true and the socket satisfies the      *)
(* active predicate.  (Violated: handleClientMessage sets lastActivity    *)
(* only; isAlive stays false from the tick's ping until the pong.)        *)
(***************************************************************************)
C28_MessageMarksAlive ==
    [][lastCall'.kind = "message" =>
           /\ conn'[lastCall'.ws].isAlive = "true"
           /\ IsActive(conn'[lastCall'.ws])]_vars

(***************************************************************************)
(* C29: once the shutdown listener has run, no heartbeat tick and no      *)
(* cleanup tick runs.  (Violated: the SIGINT/SIGTERM listeners clear the  *)
(* heartbeat interval only; the cleanup interval keeps firing until the   *)
(* process exits.)                                                         *)
(***************************************************************************)
C29_TickersStopOnShutdown ==
    [][~running => ~heartbeatTick /\ ~cleanupTick]_vars

\* handleClientDisconnection runs for a socket that is not a member of its room
C30_NonMemberLeaves ==
    /\ DisconnectionStep
    /\ lastCall'.ws \notin MembersIn(RM, lastCall'.roomId)

C31_MembersCarryRoomId ==
    /\ \A roomId \in DOMAIN rooms : \A c \in rooms[roomId] : conn[c].roomId = roomId
    /\ \A r1, r2 \in DOMAIN rooms : r1 # r2 => rooms[r1] \cap rooms[r2] = {}

\* two rooms are registered, each with a member
C31_TwoRoomsWithMembers ==
    \E r1, r2 \in DOMAIN rooms : r1 # r2 /\ rooms[r1] # {} /\ rooms[r2] # {}

(***************************************************************************)
(* C32: for every registered room, the kind the connection handler gave   *)
(* its id at admission is the kind the room manager uses for the document *)
(* and the grace timer.  (Violated: server.ts accepts repo-<int>-<rest>   *)
(* for any non-empty rest, SaveManager.isCodeEditorRoom rejects a rest    *)
(* that starts with '/'.)                                                  *)
(***************************************************************************)
C32_KindsAgree ==
    \A roomId \in DOMAIN rooms :
        /\ isCodeEditorRoom(roomId) <=> SaveManager_isCodeEditorRoom(roomId)
        /\ isFileTreeRoom(roomId) <=> SaveManager_isFileTreeRoom(roomId)

(***************************************************************************)
(* C33: a process that gets past the configuration validation has a port  *)
(* in 1..65535, maxClientsPerRoom >= 1, websocketPingInterval >= 1000 and *)
(* gracePeriodMs >= 5000, and the grace period the room manager uses is   *)
(* that validated value.  (Violated: the check of gracePeriodMs is        *)
(* skipped when the value is 0, and a comparison with NaN is false.)      *)
(***************************************************************************)
C33_RunningConfigIsValid ==
    config.phase = "running" =>
        /\ ~config.loaded.port.nan
        /\ config.loaded.port.n \in 1..65535
        /\ ~config.loaded.maxClientsPerRoom.nan
        /\ config.loaded.maxClientsPerRoom.n >= 1
        /\ ~config.loaded.websocketPingInterval.nan
        /\ config.loaded.websocketPingInterval.n >= 1000
        /\ ~config.loaded.gracePeriodMs.nan
        /\ config.loaded.gracePeriodMs.n >= 5000
        /\ config.gracePeriodMs = config.loaded.gracePeriodMs

\* socket c is a member of the room it is bound to
IsMember(c) == conn[c].roomId \in DOMAIN rooms /\ c \in rooms[conn[c].roomId]

(***************************************************************************)
(* C34: a heartbeat tick, a pong, or a cleanup tick that does not drain   *)
(* leaves every member whose transport is open, before and after, a       *)
(* member of its room.  (Violated: the tick sets isAlive to false until   *)
(* the pong arrives, and a cleanup tick in between evicts every member    *)
(* whose isAlive is false.)                                                *)
(***************************************************************************)
C34_OpenMemberStays ==
    [][(heartbeatTick \/ pong \/ (cleanupTick /\ ActiveTotal <= AnomalyThreshold)) =>
           \A c \in Conns :
               IsMember(c) /\ conn[c].st = "open" /\ conn'[c].st = "open" =>
                   /\ conn[c].roomId \in DOMAIN rooms'
                   /\ c \in rooms'[conn[c].roomId]]_vars

(***************************************************************************)
(* C35: the handling of the disconnection of one socket ('close' or       *)
(* 'error') closes no other socket whose transport is open and removes no *)
(* such socket from its room.  (Violated: when the members that remain    *)
(* all wait for their pong, the active count is 0 and, for a room that is *)
(* not a code-editor room for SaveManager, the room is destroyed and its  *)
(* members are closed with 1000.)                                          *)
(***************************************************************************)
C35_DisconnectSparesOthers ==
    [][DisconnectionStep =>
           \A d \in Conns \ {lastCall'.ws} :
               conn[d].st = "open" =>
                   /\ conn'[d].st = "open"
                   /\ d \notin DOMAIN closeCalls'
                   /\ IsMember(d) =>
                          conn[d].roomId \in DOMAIN rooms' /\ d \in rooms'[conn[d].roomId]]_vars

(***************************************************************************)
(* C36: the handling of the 'close' of a socket whose 'error' was handled *)
(* before changes neither the quota table nor the rooms and grace timers: *)
(* the disconnection takes effect once.  (Violated: both listeners call   *)
(* handleClientDisconnection, and the second call releases a unit that    *)
(* belongs to another socket of the same address and room.)               *)
(***************************************************************************)
C36_DisconnectOnce ==
    [][DisconnectionStep /\ conn[lastCall'.ws].errorEmitted =>
           UNCHANGED <<connectionTracker, rooms, gracePeriods, timers>>]_vars


(***************************************************************************)
(* C37: a grace-timer callback destroys a code-editor room and its         *)
(* document only if it was armed at or after the most recent moment the    *)
(* room's active count dropped to zero, so that it never fires earlier     *)
(* than gracePeriodMs after that moment.                                   *)
(***************************************************************************)
C37_NoEarlyDestruction ==
    [][graceTimeoutTimed /\ Head(timers) \in DOMAIN rooms /\ Head(timers) \notin DOMAIN rooms' =>
           MapGetOr(armedBeforeDrop, Head(timers), 0) = 0]_vars

C39_OnlyMembersWrite ==
    [][lastCall'.kind = "message" =>
           \A i \in 1..Len(broadcasts') :
               broadcasts'[i].sent # {} \/ broadcasts'[i].applied =>
                   /\ broadcasts'[i].roomId \in DOMAIN rooms
                   /\ broadcasts'[i].sender \in rooms[broadcasts'[i].roomId]]_vars

====
